---- MODULE Spec2Model ----
(***************************************************************************)
(* Model of the pokergosu keyword crawler.                                 *)
(*                                                                         *)
(*   main.py               per-keyword-search variant ("search")           *)
(*   pokergosu_crawler.py  whole-board variant        ("board")            *)
(*                                                                         *)
(* Text is modelled as a sequence of one-character strings, so that        *)
(* str.endswith, str.startswith, `in` and str.split are computed           *)
(* character by character as Python does.  Hangul syllables of KEYWORDS    *)
(* are written as romanised tokens, one token per code point.              *)
(***************************************************************************)
EXTENDS Integers, Sequences, FiniteSets, TLC

VARIABLES
    variant,        \* which script runs: "search" (main.py) or "board"
    yesterday,      \* module-level `yesterday`, fixed at import time
    EMAIL_TO,       \* os.environ.get('EMAIL_TO'): text, or None
    pc,             \* position of the run
    ki,             \* index into KEYWORDS of the next keyword (search)
    posts,          \* the `posts` list built by crawl_posts
    crawlReturned,  \* crawl_posts returned normally to main
    fetchOk,        \* the last requests.get / raise_for_status succeeded
    trace,          \* HTTP requests and time.sleep calls, in order
    stdout,         \* lines printed, as tags
    html,           \* html_content rendered by main
    sendCalls,      \* number of send_email invocations
    smtpLog,        \* SMTP steps attempted, in order, each with its outcome
    smtpClosed,     \* the `with smtplib.SMTP(...)` block has exited
    exc,            \* exception that ended the run, or "none"
    pin,            \* inputs of the pure-function specifications
    pout            \* results of the pure-function specifications

vars == <<variant, yesterday, EMAIL_TO, pc, ki, posts, crawlReturned, fetchOk,
          trace, stdout, html, sendCalls, smtpLog, smtpClosed, exc, pin, pout>>

----------------------------------------------------------------------------
(* Bounds of the model *)

MaxRows == 2

MaxBoardRows == 2

MaxPosts == 3

----------------------------------------------------------------------------
(* Python str operations on sequences of characters *)

None == <<"None">>

StartsWith(s, p) ==
    Len(s) >= Len(p) /\ SubSeq(s, 1, Len(p)) = p

EndsWith(s, p) ==
    Len(s) >= Len(p) /\ SubSeq(s, Len(s) - Len(p) + 1, Len(s)) = p

\* `sub in s`
Contains(sub, s) ==
    \E i \in 1..(Len(s) - Len(sub) + 1) : SubSeq(s, i, i + Len(sub) - 1) = sub

RECURSIVE SplitFrom(_, _, _, _)
SplitFrom(s, sep, i, cur) ==
    IF i > Len(s) THEN <<cur>>
    ELSE IF s[i] = sep THEN <<cur>> \o SplitFrom(s, sep, i + 1, <<>>)
    ELSE SplitFrom(s, sep, i + 1, Append(cur, s[i]))

\* s.split(sep) for a one-character separator
Split(s, sep) == SplitFrom(s, sep, 1, <<>>)

Digit(n) == <<"0", "1", "2", "3", "4", "5", "6", "7", "8", "9">>[n + 1]

\* strftime('%m-%d'): two zero-padded digits, '-', two zero-padded digits
StrfMD(y) ==
    <<Digit(y.m \div 10), Digit(y.m % 10), "-", Digit(y.d \div 10), Digit(y.d % 10)>>

\* strftime('%Y-%m-%d')
StrfYMD(y) ==
    <<Digit(y.y \div 1000), Digit((y.y \div 100) % 10), Digit((y.y \div 10) % 10),
      Digit(y.y % 10), "-">> \o StrfMD(y)

----------------------------------------------------------------------------
(* Configuration *)

\* KEYWORDS = ['피망', 'WPL', 'gg포커', '투에이스', '더블에이']
KEYWORDS ==
    << <<"PI", "MANG">>,
       <<"W", "P", "L">>,
       <<"g", "g", "PO", "KEO">>,
       <<"TU", "E", "I", "SEU">>,
       <<"DEO", "BEUL", "E", "I">> >>

\* "https://www.pokergosu.com"
ORIGIN ==
    <<"h", "t", "t", "p", "s", ":", "/", "/", "w", "w", "w", ".", "p", "o", "k",
      "e", "r", "g", "o", "s", "u", ".", "c", "o", "m">>

\* the literal 'http' of link.startswith('http')
HTTP_PREFIX == <<"h", "t", "t", "p">>

\* the pause of time.sleep(2)
SLEEP_SECONDS == 2

----------------------------------------------------------------------------
(* Markup: a listing row is its sequence of <td> cells; a cell is its      *)
(* stripped text and the first <a> inside it, if any.                      *)

NoAnchor == [present |-> FALSE, text |-> <<>>, hasHref |-> FALSE, href |-> <<>>]

Anchor(text, href) == [present |-> TRUE, text |-> text, hasHref |-> TRUE, href |-> href]

\* an <a> without an href attribute
AnchorNoHref(text) == [present |-> TRUE, text |-> text, hasHref |-> FALSE, href |-> <<>>]

\* A row of n cells: the anchor sits in the second cell, the date in the
\* fourth, the view count in the last.
MkRow(n, date, a, views) ==
    [i \in 1..n |->
        [text |-> IF i = 4 THEN date ELSE IF i = n THEN views ELSE <<>>,
         a    |-> IF i = 2 THEN a ELSE NoAnchor]]

----------------------------------------------------------------------------
(* The date checks *)

\* the date check with a substring test in place of the suffix test
SearchDateContains(date_text, y) == Contains(StrfMD(y), date_text)

\* main.py: date_text.endswith(yesterday_str), yesterday_str = '%m-%d'
SearchDateOk(date_text, y) == EndsWith(date_text, StrfMD(y))

\* pokergosu_crawler.py: '-' in date_text and len(date_text) >= 5, then
\* date_text.endswith(yesterday.strftime('%m-%d'))
BoardDateOk(date_text, y) ==
    IF Contains(<<"-">>, date_text) /\ Len(date_text) >= 5
    THEN EndsWith(date_text, StrfMD(y))
    ELSE FALSE

\* if not link.startswith('http'): link = "https://www.pokergosu.com" + link
NormalizeLink(href) ==
    IF ~StartsWith(href, HTTP_PREFIX) THEN ORIGIN \o href ELSE href

\* the keyword filter with the title test dropped: any(keyword for keyword in KEYWORDS)
KeywordFilterTruthy(title) ==
    \E k \in DOMAIN KEYWORDS : KEYWORDS[k] # <<>>

\* any(keyword in title for keyword in KEYWORDS)
KeywordFilter(title) ==
    \E k \in DOMAIN KEYWORDS : Contains(KEYWORDS[k], title)

----------------------------------------------------------------------------
(* The body of the row loop.  The result is "skip" (continue), "post" (a   *)
(* Post is appended) or "raise" (title_tag['href'] raises KeyError when    *)
(* the anchor has no href attribute).                                      *)

Skip == [kind |-> "skip"]

Raise == [kind |-> "raise"]

\* main.py, lines 66-89
SearchRow(cols, keyword, y) ==
    IF Len(cols) < 4 THEN Skip
    ELSE LET date_text == cols[4].text
             title_tag == cols[2].a
         IN  IF ~SearchDateOk(date_text, y) THEN Skip
             ELSE IF ~title_tag.present THEN Skip
             ELSE IF ~title_tag.hasHref THEN Raise
             ELSE [kind |-> "post",
                   post |-> [keyword |-> keyword,
                             title   |-> title_tag.text,
                             date    |-> date_text,
                             views   |-> cols[Len(cols)].text,
                             link    |-> NormalizeLink(title_tag.href)]]

\* pokergosu_crawler.py, lines 46-76
BoardRow(cols, y) ==
    IF Len(cols) < 4 THEN Skip
    ELSE LET date_text == cols[4].text
             title_tag == cols[2].a
         IN  IF ~BoardDateOk(date_text, y) THEN Skip
             ELSE IF ~title_tag.present THEN Skip
             ELSE IF ~title_tag.hasHref THEN Raise
             ELSE IF ~KeywordFilter(title_tag.text) THEN Skip
             ELSE [kind |-> "post",
                   post |-> [title |-> title_tag.text,
                             date  |-> date_text,
                             views |-> cols[Len(cols)].text,
                             link  |-> NormalizeLink(title_tag.href)]]

\* The row loop over one page: the posts appended, or the KeyError.
RECURSIVE SearchPage(_, _, _, _, _)
SearchPage(page, i, keyword, y, acc) ==
    IF i > Len(page) THEN [raised |-> FALSE, posts |-> acc]
    ELSE LET r == SearchRow(page[i], keyword, y)
         IN  IF r.kind = "raise" THEN [raised |-> TRUE, posts |-> acc]
             ELSE SearchPage(page, i + 1, keyword, y,
                             IF r.kind = "post" THEN Append(acc, r.post) ELSE acc)

RECURSIVE BoardPage(_, _, _, _)
BoardPage(page, i, y, acc) ==
    IF i > Len(page) THEN [raised |-> FALSE, posts |-> acc]
    ELSE LET r == BoardRow(page[i], y)
         IN  IF r.kind = "raise" THEN [raised |-> TRUE, posts |-> acc]
             ELSE BoardPage(page, i + 1, y,
                            IF r.kind = "post" THEN Append(acc, r.post) ELSE acc)

----------------------------------------------------------------------------
(* Reports *)

RECURSIVE GroupAdjacent(_, _, _)
\* grouping of adjacent posts only: a new group whenever the keyword changes
GroupAdjacent(ps, i, grouped) ==
    IF i > Len(ps) THEN grouped
    ELSE LET p == ps[i]
             n == Len(grouped)
         IN  IF n = 0 \/ grouped[n].keyword # p.keyword
             THEN GroupAdjacent(ps, i + 1,
                                Append(grouped, [keyword |-> p.keyword, plist |-> <<p>>]))
             ELSE GroupAdjacent(ps, i + 1,
                                [grouped EXCEPT ![n].plist = Append(@, p)])

RECURSIVE GroupFrom(_, _, _)
\* grouped.setdefault(p['keyword'], []).append(p), in dict insertion order
GroupFrom(ps, i, grouped) ==
    IF i > Len(ps) THEN grouped
    ELSE LET p == ps[i]
             hit == {g \in DOMAIN grouped : grouped[g].keyword = p.keyword}
         IN  IF hit = {}
             THEN GroupFrom(ps, i + 1,
                            Append(grouped, [keyword |-> p.keyword, plist |-> <<p>>]))
             ELSE GroupFrom(ps, i + 1,
                            [g \in DOMAIN grouped |->
                                IF g \in hit
                                THEN [grouped[g] EXCEPT !.plist = Append(@, p)]
                                ELSE grouped[g]])

\* main.py make_email_html: the banner date, the total line, and one
\* section per group with its keyword, its count and its entries.
make_email_html(ps, send_date) ==
    LET grouped == GroupFrom(ps, 1, <<>>)
    IN  [banner   |-> send_date,
         total    |-> Len(ps),
         sections |-> [g \in DOMAIN grouped |->
                          [keyword |-> grouped[g].keyword,
                           count   |-> Len(grouped[g].plist),
                           entries |-> grouped[g].plist]]]

\* pokergosu_crawler.py make_html_table
make_html_table(ps) ==
    IF ps = <<>> THEN [kind |-> "none_paragraph", rows |-> <<>>]
    ELSE [kind |-> "table", rows |-> ps]

NoHtml == [kind |-> "unset"]

----------------------------------------------------------------------------
(* Inputs: what the forum can serve and what the environment can hold *)

Yesterdays == {[y |-> 2025, m |-> 7, d |-> 30], [y |-> 2024, m |-> 12, d |-> 1]}

DayBefore(y) == [y EXCEPT !.d = IF y.d > 1 THEN y.d - 1 ELSE 28]

\* Date cells: MM-DD and YYYY-MM-DD of yesterday, the same day of another
\* year, the day before, a truncated date, a date without separator, an
\* empty cell, and yesterday's date followed by more text.
DateTexts(y) ==
    { StrfMD(y), StrfYMD(y), StrfYMD([y EXCEPT !.y = y.y - 1]),
      StrfMD(DayBefore(y)), StrfYMD(DayBefore(y)),
      Tail(StrfMD(y)), <<>>,
      SelectSeq(StrfMD(y), LAMBDA c : c # "-"),
      StrfMD(y) \o <<"x">> }

Titles ==
    { <<"PI", "MANG", " ", "x">>,          \* starts with a keyword
      <<"x", "W", "P", "L", "x">>,         \* keyword in the middle
      <<"w", "p", "l">>,                   \* a keyword in another case
      <<"TU", "E", "I">>,                  \* a proper prefix of a keyword
      <<"x">>,
      <<>> }

Hrefs ==
    { <<"/", "f", "/", "1">>,                                     \* /f/1
      <<"f", "/", "1">>,                                          \* f/1
      <<"h", "t", "t", "p", ":", "/", "/", "a", "/", "1">>,       \* http://a/1
      <<"h", "t", "t", "p", "s", ":", "/", "/", "a", "/", "1">>,  \* https://a/1
      <<"f", "t", "p", ":", "/", "/", "a", "/", "1">>,            \* ftp://a/1
      <<"h", "t", "t", "p", "x", "/", "1">>,                      \* httpx/1
      <<>> }

Views == <<"1", "2">>

GoodTitle == <<"PI", "MANG", " ", "x">>

GoodHref == <<"/", "f", "/", "1">>

\* Rows of the listing: a well-formed post row of yesterday, varied in one
\* respect at a time (cell count, date cell, anchor, title, href).
BoardRows(y) ==
    { MkRow(n, StrfMD(y), Anchor(GoodTitle, GoodHref), Views) : n \in 3..5 }
    \cup { MkRow(5, d, Anchor(GoodTitle, GoodHref), Views) : d \in DateTexts(y) }
    \cup { MkRow(5, d, Anchor(<<"x">>, GoodHref), Views) : d \in DateTexts(y) }
    \cup { MkRow(5, StrfMD(y), Anchor(t, GoodHref), Views) : t \in Titles }
    \cup { MkRow(5, StrfMD(y), Anchor(GoodTitle, h), Views) : h \in Hrefs }
    \cup { MkRow(5, d, NoAnchor, Views) : d \in {StrfMD(y), StrfMD(DayBefore(y))} }
    \cup { MkRow(5, d, AnchorNoHref(GoodTitle), Views) :
             d \in {StrfMD(y), StrfMD(DayBefore(y))} }

\* Rows of a search page: one row per way the loop body can end (too few
\* cells, retained, wrong date, no anchor, anchor without href).  The search
\* variant fetches a page per keyword, so the selection is kept small.
SearchRows(y) ==
    { MkRow(3, StrfMD(y), Anchor(GoodTitle, GoodHref), Views),
      MkRow(5, StrfMD(y), Anchor(GoodTitle, GoodHref), Views),
      MkRow(5, StrfMD(DayBefore(y)), Anchor(GoodTitle, GoodHref), Views),
      MkRow(5, StrfMD(y), NoAnchor, Views),
      MkRow(5, StrfMD(y), AnchorNoHref(GoodTitle), Views) }

\* all sequences over S of length at most n
RECURSIVE SeqsUpTo(_, _)
SeqsUpTo(S, n) ==
    IF n = 0 THEN {<<>>}
    ELSE LET shorter == SeqsUpTo(S, n - 1)
         IN  shorter \cup {Append(q, x) : q \in shorter, x \in S}

SearchPages(y) == SeqsUpTo(SearchRows(y), MaxRows)

BoardPages(y) == SeqsUpTo(BoardRows(y), MaxBoardRows)

\* EMAIL_TO: unset, one address, two addresses, two addresses with a space
\* after the comma, and a trailing comma.
EmailTos ==
    { None,
      <<"a", "@", "x">>,
      <<"a", "@", "x", ",", "b", "@", "x">>,
      <<"a", "@", "x", ",", " ", "b", "@", "x">>,
      <<"a", "@", "x", ",">> }

----------------------------------------------------------------------------
(* The run *)

Get(k, ok) == [ev |-> "get", k |-> k, arg |-> IF ok THEN 1 ELSE 0]

Sleep(k) == [ev |-> "sleep", k |-> k, arg |-> SLEEP_SECONDS]

\* the send decision without the emptiness test
ShouldSendAlways(ps) == TRUE

\* main.py main: `if posts:`
ShouldSend(ps) == ps # <<>>

\* the recipient list without the split
RecipientsUnsplit(to) == <<to>>

\* EMAIL_TO.split(',')
Recipients(to) == Split(to, ",")

\* send_email: the calls on the SMTP session, in program order
SmtpSteps == <<"connect", "starttls", "login", "sendmail">>

\* the position after step number n has succeeded
AfterStep(n) == IF n < Len(SmtpSteps) THEN SmtpSteps[n + 1] ELSE "done"

Init ==
    /\ variant \in {"search", "board"}
    /\ yesterday \in Yesterdays
    /\ EMAIL_TO \in EmailTos
    /\ pc = "crawl"
    /\ ki = 1
    /\ posts = <<>>
    /\ crawlReturned = FALSE
    /\ fetchOk = FALSE
    /\ trace = <<>>
    /\ stdout = <<>>
    /\ html = NoHtml
    /\ sendCalls = 0
    /\ smtpLog = <<>>
    /\ smtpClosed = FALSE
    /\ exc = "none"
    /\ pin = <<>>
    /\ pout = <<>>

\* main.py crawl_posts, one iteration: the request succeeds, the rows are
\* scanned, then time.sleep(2).
SearchFetchOk ==
    /\ variant = "search" /\ pc = "crawl" /\ ki <= Len(KEYWORDS)
    /\ \E page \in SearchPages(yesterday) :
         LET r == SearchPage(page, 1, KEYWORDS[ki], yesterday, posts)
         IN  /\ posts' = r.posts
             /\ fetchOk' = TRUE
             /\ stdout' = Append(stdout, "request")
             /\ IF r.raised
                THEN /\ trace' = Append(trace, Get(ki, TRUE))
                     /\ pc' = "crashed"
                     /\ exc' = "KeyError"
                     /\ ki' = ki
                ELSE /\ trace' = trace \o <<Get(ki, TRUE), Sleep(ki)>>
                     /\ ki' = ki + 1
                     /\ UNCHANGED <<pc, exc>>
    /\ UNCHANGED <<variant, yesterday, EMAIL_TO, crawlReturned, html, sendCalls,
                   smtpLog, smtpClosed, pin, pout>>

\* raise_for_status raises HTTPError: printed, then `continue`
SearchFetchHTTPError ==
    /\ variant = "search" /\ pc = "crawl" /\ ki <= Len(KEYWORDS)
    /\ trace' = Append(trace, Get(ki, FALSE))
    /\ stdout' = stdout \o <<"request", "http_error">>
    /\ fetchOk' = FALSE
    /\ ki' = ki + 1
    /\ UNCHANGED <<variant, yesterday, EMAIL_TO, pc, posts, crawlReturned, html,
                   sendCalls, smtpLog, smtpClosed, exc, pin, pout>>

\* requests.get raises ConnectionError or Timeout: not an HTTPError, so the
\* except clause does not match and the exception leaves crawl_posts
SearchFetchTransportError ==
    /\ variant = "search" /\ pc = "crawl" /\ ki <= Len(KEYWORDS)
    /\ trace' = Append(trace, Get(ki, FALSE))
    /\ stdout' = Append(stdout, "request")
    /\ fetchOk' = FALSE
    /\ pc' = "crashed"
    /\ exc' = "ConnectionError"
    /\ UNCHANGED <<variant, yesterday, EMAIL_TO, ki, posts, crawlReturned, html,
                   sendCalls, smtpLog, smtpClosed, pin, pout>>

\* main.py main, after crawl_posts returned
SearchMain ==
    /\ variant = "search" /\ pc = "crawl" /\ ki > Len(KEYWORDS)
    /\ crawlReturned' = TRUE
    /\ html' = make_email_html(posts, StrfYMD(yesterday))
    /\ IF ShouldSend(posts)
       THEN /\ sendCalls' = sendCalls + 1
            /\ pc' = SmtpSteps[1]
            /\ UNCHANGED stdout
       ELSE /\ stdout' = Append(stdout, "no_posts")
            /\ pc' = "done"
            /\ UNCHANGED sendCalls
    /\ UNCHANGED <<variant, yesterday, EMAIL_TO, ki, posts, fetchOk, trace,
                   smtpLog, smtpClosed, exc, pin, pout>>

\* pokergosu_crawler.py crawl_posts: the one request succeeds
BoardFetchOk ==
    /\ variant = "board" /\ pc = "crawl"
    /\ \E page \in BoardPages(yesterday) :
         LET r == BoardPage(page, 1, yesterday, <<>>)
         IN  /\ posts' = r.posts
             /\ IF r.raised
                THEN /\ pc' = "crashed"
                     /\ exc' = "KeyError"
                     /\ UNCHANGED crawlReturned
                ELSE /\ pc' = "main"
                     /\ crawlReturned' = TRUE
                     /\ UNCHANGED exc
    /\ fetchOk' = TRUE
    /\ trace' = Append(trace, Get(0, TRUE))
    /\ UNCHANGED <<variant, yesterday, EMAIL_TO, ki, stdout, html, sendCalls,
                   smtpLog, smtpClosed, pin, pout>>

\* requests.get or raise_for_status raises: nothing catches it
BoardFetchFail ==
    /\ variant = "board" /\ pc = "crawl"
    /\ \E e \in {"HTTPError", "ConnectionError"} : exc' = e
    /\ pc' = "crashed"
    /\ fetchOk' = FALSE
    /\ trace' = Append(trace, Get(0, FALSE))
    /\ UNCHANGED <<variant, yesterday, EMAIL_TO, ki, posts, crawlReturned, stdout,
                   html, sendCalls, smtpLog, smtpClosed, pin, pout>>

\* pokergosu_crawler.py main, after crawl_posts returned
BoardMain ==
    /\ variant = "board" /\ pc = "main"
    /\ html' = make_html_table(posts)
    /\ sendCalls' = sendCalls + 1
    /\ pc' = SmtpSteps[1]
    /\ UNCHANGED <<variant, yesterday, EMAIL_TO, ki, posts, crawlReturned, fetchOk,
                   trace, stdout, smtpLog, smtpClosed, exc, pin, pout>>

\* send_email: step number n of the SMTP session succeeds or raises.  The
\* `with` block is entered once the constructor has connected; leaving it,
\* normally or by an exception, closes the session.
SmtpStep(n) ==
    /\ pc = SmtpSteps[n]
    /\ \E ok \in BOOLEAN :
         /\ smtpLog' = Append(smtpLog, [step |-> SmtpSteps[n], ok |-> ok,
                                        rcpts |-> IF SmtpSteps[n] = "sendmail"
                                                  THEN Recipients(EMAIL_TO)
                                                  ELSE <<>>])
         /\ IF ok
            THEN /\ pc' = AfterStep(n)
                 /\ smtpClosed' = (AfterStep(n) = "done")
                 /\ UNCHANGED exc
            ELSE /\ pc' = "crashed"
                 /\ exc' = "SMTPException"
                 /\ smtpClosed' = (n > 1)
    /\ UNCHANGED <<variant, yesterday, EMAIL_TO, ki, posts, crawlReturned, fetchOk,
                   trace, stdout, html, sendCalls, pin, pout>>

SmtpConnect == SmtpStep(1) /\ pc = "connect"

SmtpStartTLS == SmtpStep(2) /\ pc = "starttls"

SmtpLogin == SmtpStep(3) /\ pc = "login"

\* server.sendmail(EMAIL_USER, EMAIL_TO.split(','), msg.as_string())
SmtpSendmail == EMAIL_TO # None /\ pc = "sendmail" /\ SmtpStep(4)

\* EMAIL_TO is None: evaluating EMAIL_TO.split(',') raises AttributeError
\* before sendmail is called
SmtpSendmailNoRecipients ==
    /\ pc = "sendmail" /\ EMAIL_TO = None
    /\ pc' = "crashed"
    /\ exc' = "AttributeError"
    /\ smtpClosed' = TRUE
    /\ UNCHANGED <<variant, yesterday, EMAIL_TO, ki, posts, crawlReturned, fetchOk,
                   trace, stdout, html, sendCalls, smtpLog, pin, pout>>

Next ==
    \/ SearchFetchOk
    \/ SearchFetchHTTPError
    \/ SearchFetchTransportError
    \/ SearchMain
    \/ BoardFetchOk
    \/ BoardFetchFail
    \/ BoardMain
    \/ SmtpConnect
    \/ SmtpStartTLS
    \/ SmtpLogin
    \/ SmtpSendmail
    \/ SmtpSendmailNoRecipients

Spec == Init /\ [][Next]_vars

----------------------------------------------------------------------------
(* The loop body applied to one row, in both variants, for every row of    *)
(* the input set, every keyword and every run date.                        *)

InitRow ==
    /\ yesterday \in Yesterdays
    /\ \E cols \in BoardRows(yesterday) \cup SearchRows(yesterday) :
       \E k \in DOMAIN KEYWORDS :
          pin = [cols |-> cols, keyword |-> KEYWORDS[k]]
    /\ pc = "row_in"
    /\ pout = <<>>
    /\ variant = "rows"
    /\ EMAIL_TO = None
    /\ ki = 1
    /\ posts = <<>>
    /\ crawlReturned = FALSE
    /\ fetchOk = FALSE
    /\ trace = <<>>
    /\ stdout = <<>>
    /\ html = NoHtml
    /\ sendCalls = 0
    /\ smtpLog = <<>>
    /\ smtpClosed = FALSE
    /\ exc = "none"

ApplyRow ==
    /\ pc = "row_in"
    /\ pc' = "row_out"
    /\ pout' = [search     |-> SearchRow(pin.cols, pin.keyword, yesterday),
                board      |-> BoardRow(pin.cols, yesterday),
                searchDate |-> IF Len(pin.cols) >= 4
                               THEN SearchDateOk(pin.cols[4].text, yesterday)
                               ELSE FALSE,
                boardDate  |-> IF Len(pin.cols) >= 4
                               THEN BoardDateOk(pin.cols[4].text, yesterday)
                               ELSE FALSE]
    /\ UNCHANGED <<variant, yesterday, EMAIL_TO, ki, posts, crawlReturned, fetchOk,
                   trace, stdout, html, sendCalls, smtpLog, smtpClosed, exc, pin>>

NextRow == ApplyRow

SpecRow == InitRow /\ [][NextRow]_vars

----------------------------------------------------------------------------
(* make_email_html applied to every list of at most MaxPosts posts         *)

ReportPosts ==
    { [keyword |-> KEYWORDS[k], title |-> t, date |-> <<"0", "7", "-", "3", "0">>,
       views |-> <<"1", "2">>, link |-> ORIGIN \o GoodHref] :
          k \in 1..3, t \in {GoodTitle, <<"x">>} }

InitReport ==
    /\ yesterday \in Yesterdays
    /\ \E ps \in SeqsUpTo(ReportPosts, MaxPosts) : pin = [ps |-> ps]
    /\ pc = "report_in"
    /\ pout = <<>>
    /\ variant = "report"
    /\ EMAIL_TO = None
    /\ ki = 1
    /\ posts = <<>>
    /\ crawlReturned = FALSE
    /\ fetchOk = FALSE
    /\ trace = <<>>
    /\ stdout = <<>>
    /\ html = NoHtml
    /\ sendCalls = 0
    /\ smtpLog = <<>>
    /\ smtpClosed = FALSE
    /\ exc = "none"

ApplyReport ==
    /\ pc = "report_in"
    /\ pc' = "report_out"
    /\ pout' = make_email_html(pin.ps, StrfYMD(yesterday))
    /\ UNCHANGED <<variant, yesterday, EMAIL_TO, ki, posts, crawlReturned, fetchOk,
                   trace, stdout, html, sendCalls, smtpLog, smtpClosed, exc, pin>>

NextReport == ApplyReport

SpecReport == InitReport /\ [][NextReport]_vars

----------------------------------------------------------------------------
(* Properties *)

RunEnded == pc \in {"done", "crashed"}

SmtpTouched == sendCalls > 0 \/ smtpLog # <<>> \/ smtpClosed

\* C1: in the search variant send_email is invoked, and the SMTP session
\* touched, only after crawl_posts returned at least one post; when
\* crawl_posts returned no post the run ends without any SMTP activity and
\* with the "no posts" line printed last.
C1_NoMailWithoutPosts ==
    variant = "search" =>
        /\ SmtpTouched => (crawlReturned /\ Len(posts) >= 1)
        /\ (crawlReturned /\ posts = <<>>) =>
              /\ ~SmtpTouched
              /\ pc = "done"
              /\ stdout # <<>> /\ stdout[Len(stdout)] = "no_posts"
        /\ (\E i \in DOMAIN stdout : stdout[i] = "no_posts") => ~SmtpTouched

C1_Witness ==
    /\ variant = "search" /\ crawlReturned /\ posts = <<>> /\ pc = "done"
    /\ stdout[Len(stdout)] = "no_posts"
    /\ \E i \in DOMAIN trace : trace[i].ev = "get" /\ trace[i].arg = 1

\* C2: in the search variant a failed fetch for keyword k (HTTP status or
\* transport failure) does not abort the run: the loop moves on to the
\* keyword after k.
C2_NetworkErrorSkipped ==
    variant = "search" =>
        \A i \in DOMAIN trace :
            (trace[i].ev = "get" /\ trace[i].arg = 0) =>
                /\ ki > trace[i].k
                /\ exc \notin {"HTTPError", "ConnectionError"}

\* C3: a row whose date text does not end with yesterday's MM-DD yields no
\* Post, in either variant, whatever its title, link and view count.
C3_WrongDateNeverRetained ==
    (pc = "row_out" /\ Len(pin.cols) >= 4) =>
        LET date_text == pin.cols[4].text
            n == Len(date_text)
            suffix == IF n >= 5 THEN SubSeq(date_text, n - 4, n) ELSE <<"short">>
        IN  suffix # StrfMD(yesterday) =>
                (pout.search.kind # "post" /\ pout.board.kind # "post")

C3_Witness ==
    /\ pc = "row_out" /\ Len(pin.cols) >= 4
    /\ pin.cols[2].a.hasHref /\ KeywordFilter(pin.cols[2].a.text)
    /\ Contains(StrfMD(yesterday), pin.cols[4].text)
    /\ ~EndsWith(pin.cols[4].text, StrfMD(yesterday))
    /\ pout.search.kind = "skip" /\ pout.board.kind = "skip"

\* C4: in the whole-board variant every Post in the list has a title in
\* which some element of KEYWORDS occurs as a contiguous run of characters.
C4_TitleHasKeyword ==
    variant = "board" =>
        \A i \in DOMAIN posts :
            \E k \in DOMAIN KEYWORDS :
            \E a \in 1..Len(posts[i].title) :
                /\ a + Len(KEYWORDS[k]) - 1 <= Len(posts[i].title)
                /\ \A j \in 1..Len(KEYWORDS[k]) :
                       posts[i].title[a + j - 1] = KEYWORDS[k][j]

C4_Witness ==
    /\ variant = "board" /\ crawlReturned /\ Len(posts) = 2
    /\ posts[1].title # posts[2].title

\* C5: in the whole-board variant a run whose fetch succeeded invokes
\* send_email exactly once, and a run whose fetch failed never does.
C5_SendOncePerFetchedRun ==
    (variant = "board" /\ RunEnded) =>
        sendCalls = (IF fetchOk THEN 1 ELSE 0)

Sum(f) ==
    LET RECURSIVE Go(_)
        Go(i) == IF i = 0 THEN 0 ELSE f[i] + Go(i - 1)
    IN  Go(Len(f))

\* C6: the report's total is the number of posts, there is exactly one
\* section per distinct keyword, each section's count is the number of
\* posts with that keyword, and the counts add up to the total.
C6_ReportCounts ==
    pc = "report_out" =>
        LET ps == pin.ps
            kws == {ps[i].keyword : i \in DOMAIN ps}
        IN  /\ pout.total = Len(ps)
            /\ Len(pout.sections) = Cardinality(kws)
            /\ {pout.sections[g].keyword : g \in DOMAIN pout.sections} = kws
            /\ \A g \in DOMAIN pout.sections :
                   pout.sections[g].count =
                       Cardinality({i \in DOMAIN ps :
                                       ps[i].keyword = pout.sections[g].keyword})
            /\ Sum([g \in DOMAIN pout.sections |-> pout.sections[g].count]) = pout.total

C6_Witness ==
    /\ pc = "report_out" /\ Len(pin.ps) = 3
    /\ pin.ps[1].keyword = pin.ps[3].keyword
    /\ pin.ps[1].keyword # pin.ps[2].keyword
    /\ Len(pout.sections) = 2

RECURSIVE Join(_, _)
Join(parts, sep) ==
    IF Len(parts) = 0 THEN <<>>
    ELSE IF Len(parts) = 1 THEN parts[1]
    ELSE parts[1] \o <<sep>> \o Join(Tail(parts), sep)

\* C7: the SMTP steps are attempted in the order connect, STARTTLS, login,
\* sendmail, each at most once; a failed step is the last one attempted and
\* ends the run with its exception; sendmail is called at most once, with
\* the comma-separated parts of EMAIL_TO as its recipient list.
C7_SmtpOrderNoRetry ==
    /\ sendCalls <= 1
    /\ smtpLog # <<>> => sendCalls = 1
    /\ Len(smtpLog) <= 4
    /\ \A i \in DOMAIN smtpLog :
          /\ smtpLog[i].step = <<"connect", "starttls", "login", "sendmail">>[i]
          /\ ~smtpLog[i].ok =>
                (i = Len(smtpLog) /\ pc = "crashed" /\ exc = "SMTPException")
          /\ smtpLog[i].step = "sendmail" =>
                /\ Join(smtpLog[i].rcpts, ",") = EMAIL_TO
                /\ \A r \in DOMAIN smtpLog[i].rcpts :
                       \A c \in DOMAIN smtpLog[i].rcpts[r] :
                           smtpLog[i].rcpts[r][c] # ","
    /\ Cardinality({i \in DOMAIN smtpLog : smtpLog[i].step = "sendmail"}) <= 1

C7_Witness ==
    /\ pc = "done" /\ Len(smtpLog) = 4 /\ smtpLog[4].ok
    /\ Len(smtpLog[4].rcpts) = 2
    /\ smtpLog[4].rcpts[1] = <<"a", "@", "x">>
    /\ smtpLog[4].rcpts[2] = <<"b", "@", "x">>

\* C8: in the search variant a pause lies between every two consecutive
\* requests, whether the earlier one succeeded or failed.
C8_PauseBetweenRequests ==
    variant = "search" =>
        \A i \in DOMAIN trace : \A j \in DOMAIN trace :
            (i < j /\ trace[i].ev = "get" /\ trace[j].ev = "get") =>
                \E s \in (i + 1)..(j - 1) :
                    trace[s].ev = "sleep" /\ trace[s].arg = SLEEP_SECONDS

IsAlpha(c) ==
    c \in {"a", "b", "c", "e", "f", "g", "h", "k", "m", "o", "p", "r", "s", "t",
           "u", "w", "x"}

IsDigit(c) == c \in {"0", "1", "2", "3", "4", "5", "6", "7", "8", "9"}

\* the text starts with a URL scheme: a letter, then letters, digits, '+',
\* '-' or '.', then ':'
HasScheme(s) ==
    \E n \in 2..Len(s) :
        /\ s[n] = ":"
        /\ IsAlpha(s[1])
        /\ \A i \in 1..(n - 1) : IsAlpha(s[i]) \/ IsDigit(s[i]) \/ s[i] \in {"+", "-", "."}

LinkRule(r, href) ==
    r.kind = "post" =>
        /\ r.post.link = (IF HasScheme(href) THEN href ELSE ORIGIN \o href)
        /\ HasScheme(r.post.link)

\* C9: a retained Post's link is the href unchanged when the href starts
\* with a URL scheme and the site origin followed by the href otherwise, so
\* it is always an absolute URL.
C9_LinkAbsolute ==
    pc = "row_out" =>
        /\ LinkRule(pout.search, pin.cols[2].a.href)
        /\ LinkRule(pout.board, pin.cols[2].a.href)

\* C10: both variants accept the same date texts, and a row with at least
\* four cells and a title anchor (and, in the whole-board variant, a keyword
\* in the title) is retained exactly when its date text ends with
\* yesterday's MM-DD.
C10_SameDateRule ==
    (pc = "row_out" /\ Len(pin.cols) >= 4) =>
        LET a == pin.cols[2].a
            ends == EndsWith(pin.cols[4].text, StrfMD(yesterday))
        IN  /\ pout.boardDate = pout.searchDate
            /\ pout.searchDate = ends
            /\ a.present => (pout.search.kind = "post" <=> ends)
            /\ (a.present /\ KeywordFilter(a.text)) =>
                   (pout.board.kind = "post" <=> ends)

====
